---- MODULE Spec2Model ----
(***************************************************************************)
(* Eternal Memory: the Fact Store (resources, categories, memory_items),   *)
(* the memorize (ingestion) pipeline, the retrieve pipeline, the           *)
(* consolidate pipeline and the CronScheduler that runs background jobs.   *)
(*                                                                         *)
(* Scores are kept in tenths (importance 0.3 is 3), similarities in        *)
(* hundredths (0.7 is 70), time in ticks of DaysPerTick days.              *)
(***************************************************************************)
EXTENDS Integers, Sequences, FiniteSets, TLC

\* ---------------------------------------------------------------- bounds
MaxItems == 2          \* MemoryItem identifiers handed out
MaxCats == 2           \* rows of the categories table
MaxNow == 3            \* last tick of the clock
MaxCategoryItems == 0  \* active items a category may hold before it is split
MaxStaleItems == 1     \* stale items above which the scan takes its branch
MaxHours == 720        \* hours an item is followed after its last access
MaxMessages == 2       \* messages a chat session is followed up to
MaxBuffered == 11      \* messages added to the conversation buffer
MaxSends == 3          \* messages the user sends from the chat page

\* ------------------------------------------------------ program constants
DaysPerTick == 30            \* one tick of the clock, in days
CleanupDays == 30            \* memory_cleanup: not accessed for 30 days
CleanupImportance == 3       \* memory_cleanup: importance below 0.3
StaleDays == 90              \* get_stale_items(days_threshold=90)
DefaultConfidence == 10      \* memory_items.confidence DEFAULT 1.0
DefaultMentionCount == 1     \* memory_items.mention_count DEFAULT 1
CategoryThreshold == 70      \* vector_search_categories(threshold=0.7)
ImportanceBoost == 1         \* reinforcement raises importance by 0.1
ImportanceMax == 10          \* importance 1.0

DefaultAlpha == 10           \* alpha_relevance, alpha_recency, alpha_importance: 1.0
MinRelevance == 30           \* min_relevance_threshold: 0.3
DefaultDecay == 995          \* recency_decay_factor: 0.995
DecayScale == 1000           \* decay factors are kept in thousandths
RecencyOne == 1000000        \* recency 1.0, scores are kept in millionths
DefaultInterval == 3600      \* useState(3600) of newTaskInterval
MinInterval == 60            \* "Minimum 60 seconds"
MAX_SESSIONS == 5            \* chat store: MAX_SESSIONS
buffer_size_limit == 10      \* self.buffer_size_limit = 10

None == 0                    \* NULL reference (no item, no category)

Procs == {"p1", "p2"}              \* concurrently served memorize requests
Runners == {"timer", "manual"}     \* who awaits a job: _loop or trigger_job
Flushers == {"auto", "manual"}    \* who awaits flush_buffer: check_and_flush or POST /buffer/flush
Importances == {2, 10}             \* importance estimates the extraction returns
Sims == {60, 70}                   \* best category similarity the index returns
SuggestPaths == {<<"k">>, <<"k", "a">>}  \* paths suggest_category_path returns
SubNames == {"a", "b"}             \* names suggest_subcategories returns
Summaries == {"s1", "s2"}          \* texts summarize_category returns
Verdicts == {"supersede", "equivalent", "unrelated"}
Modes == {"fast", "deep"}
Relevances == {20, 30, 90}         \* fused relevance the index gives a candidate
Alphas == {0, 10}                  \* values a weight slider is left at
AlphaKeys == {"alpha_relevance", "alpha_recency", "alpha_importance"}
Queries == {"it"}                  \* query texts
Contexts == {<<>>, <<"m">>}        \* recent conversation given with a query
Rewrites == {"q"}                  \* texts the rewrite completion returns
NoQuery == ""                      \* query_evolved: None
JobTypes == {"maintenance", "memory_cleanup"}
SystemJobs == {"maintenance"}
DecayFactors == {995, 999}         \* values the Decay Factor slider is left at
TaskNames == {<<>>, <<" ">>, <<"j">>}   \* texts typed into the name field
Intervals == {0, 59, 60, 3600}     \* numbers typed into the interval field

SessionIds == 1..(MAX_SESSIONS + 1)   \* ids crypto.randomUUID gives to sessions
SessionNames == {"r"}              \* names typed when a session is renamed
MessageIds == {2}                  \* ids of the messages added to a session
ChatInputs == {<<>>, <<" ">>, <<"h">>}   \* texts typed into the chat input
CatIds == 1..MaxCats

VARIABLES
    items,        \* memory_items table: id -> row
    categories,   \* categories table: id -> row
    resources,    \* resources table: set of ids
    mirror,       \* Markdown vault: ids of the items appended
    warnings,     \* ids whose mirror append failed (logged)
    nextItem,     \* next MemoryItem id (uuid4 at construction)
    useMemorySupersede,  \* the use_memory_supersede setting
    now,          \* clock
    pc,           \* memorize request: stage reached
    cand,         \* memorize request: the extracted candidate
    tcat,         \* memorize request: assigned category id
    tpath,        \* memorize request: path being ensured
    hit,          \* memorize request: the close item and its verdict
    refused,      \* memorize requests whose category insert was refused
    result,       \* memorize request: items returned
    rpc,          \* retrieve request: stage reached
    rmode,        \* retrieve request: mode
    rmatched,     \* retrieve request: items the index matched
    rhits,        \* retrieve request: items the search produced
    jobs,         \* CronScheduler._jobs: registered job types
    running,      \* JobInfo.running, per job type
    cpc,          \* consolidate run of each runner: stage
    ctodo,        \* consolidate run: categories still to visit
    csnap,        \* consolidate run: result of get_all_categories
    reply,        \* what the last trigger request answered
    prevSum,      \* summaries left by the last finished consolidate run
    quiet,        \* nothing created or touched since that run finished
    second,       \* the run started right after a finished run
    recency_decay_factor,  \* scoring setting, in thousandths
    elapsed,      \* hours since the scored item was last accessed
    recency,      \* its recency score, in millionths
    newTaskName,  \* add-task form: name field
    newTaskType,  \* add-task form: job type field
    newTaskInterval,  \* add-task form: interval field, seconds
    showAddTask,  \* add-task form is open
    taskError,    \* add-task form shows an error
    posted,       \* interval_seconds of the requests sent to POST /schedule/jobs
    sessions,     \* chat store: the sessions, in order
    activeSessionId,  \* chat store: id of the active session, or None
    input,        \* chat page: text of the input field
    isLoading,    \* chat page: a conversation request is awaited
    messages,     \* chat page: the messages shown, in order
    chatMode,     \* chat page: mode the next request is sent with
    selectedMessage,  \* chat page: index of the message inspected, or None
    inFlight,     \* conversation requests sent and not yet settled
    conversation_buffer,  \* EternalMemorySystem.conversation_buffer
    buffer_file,  \* the buffer as saved by _save_buffer_to_file
    nextMessage,  \* id of the next message added to the buffer
    fpc,          \* flush_buffer of each flusher: stage
    fsent,        \* flush_buffer of each flusher: messages it sent
    memorized,    \* times each message was passed to the memorize pipeline
    near,         \* memorize request: the nearest category and its similarity
    rstart,       \* retrieve request: the time it started
    rbefore,      \* retrieve request: last_accessed of the items at its start
    rrel,         \* retrieve request: fused relevance of each candidate
    rquery,       \* retrieve request: the query as given
    rcontext,     \* retrieve request: the conversation context given
    rrewrote,     \* retrieve request: whether evolve_query was called
    rsearched,    \* retrieve request: the query the search ran on
    rresult,      \* retrieve request: its RetrievalResult
    scoring       \* the scoring settings the backend holds

vars == <<items, categories, resources, mirror, warnings, nextItem,
          useMemorySupersede, now, pc, cand, tcat, tpath, hit, refused,
          result, rpc, rmode, rmatched, rhits, jobs, running, cpc, ctodo, csnap, reply,
          prevSum, quiet, second, recency_decay_factor, elapsed, recency,
          newTaskName, newTaskType, newTaskInterval, showAddTask, taskError,
          posted, sessions, activeSessionId, input, isLoading, messages,
          chatMode, selectedMessage, inFlight, conversation_buffer,
          buffer_file, nextMessage, fpc, fsent, memorized, near,
          rstart, rbefore, rrel, rquery, rcontext, rrewrote, rsearched,
          rresult, scoring>>

storeVars == <<items, categories, resources, mirror, warnings>>
ingestVars == <<nextItem, pc, cand, tcat, tpath, hit, refused, result>>
retrieveVars == <<rpc, rmode, rmatched, rhits>>
schedVars == <<jobs, running, cpc, ctodo, csnap, reply>>
histVars == <<prevSum, quiet, second>>
scoreVars == <<recency_decay_factor, elapsed, recency>>
formVars == <<newTaskName, newTaskType, newTaskInterval, showAddTask,
              taskError, posted>>
chatVars == <<sessions, activeSessionId>>
pageVars == <<input, isLoading, messages, chatMode, selectedMessage, inFlight>>
bufferVars == <<conversation_buffer, buffer_file, nextMessage, fpc, fsent,
                memorized>>
callVars == <<rstart, rbefore, rrel, rquery, rcontext, rrewrote, rsearched,
              rresult>>
otherVars == <<chatVars, pageVars, bufferVars, near, callVars,
               scoring>>

\* ------------------------------------------------------------ helpers
Min(S) == CHOOSE x \in S : \A y \in S : x <= y

Put(f, k, v) == [x \in DOMAIN f \cup {k} |-> IF x = k THEN v ELSE f[x]]

Drop(f, S) == [x \in DOMAIN f \ S |-> f[x]]

NoCand == [imp |-> 0, id |-> None, res |-> None]

NoHit == [item |-> None, verdict |-> "none"]

NoNear == [cat |-> None, sim |-> 0]

\* ------------------------------------------------------------ Fact Store
\* A row of memory_items as the schema and the MemoryItem model give it.
NewItem(cat, imp, res, t) ==
    [cat |-> cat, importance |-> imp, confidence |-> DefaultConfidence,
     mention_count |-> DefaultMentionCount, active |-> TRUE,
     superseded_by |-> None, last_accessed |-> t, resource |-> res]

NewCategory(path, parent) ==
    [path |-> path, parent |-> parent, summary |-> "none"]

\* Category.name: the last segment of the path ("python" for
\* "knowledge/coding/python").
CategoryName(row) == row.path[Len(row.path)]

CategoriesAt(path) == {c \in DOMAIN categories : categories[c].path = path}

\* INSERT INTO categories: path is UNIQUE, so the insert is refused when a
\* row with that path exists.
InsertUnchecked(path) == TRUE

InsertAllowed(path) == CategoriesAt(path) = {}

FreshCat == Min(CatIds \ DOMAIN categories)

ItemsIn(c) == {i \in DOMAIN items : items[i].cat = c}

ActiveIn(c) == {i \in ItemsIn(c) : items[i].active}

\* ------------------------------------------------- memorize pipeline
\* The resources table after an input that gave n candidates: the Resource
\* of the input is written only when there is something to remember.
ResourcesEager(n) == resources \cup {Cardinality(resources) + 1}

ResourcesAfter(n) ==
    IF n = 0 THEN resources ELSE resources \cup {Cardinality(resources) + 1}

\* Stage 1, salience extraction (extract_facts). The completion service
\* returns zero candidates or one; a candidate is a MemoryItem model
\* object, so it has its id from construction.
Extract(p) ==
    /\ pc[p] = "idle"
    /\ \/ /\ pc' = [pc EXCEPT ![p] = "done"]
          /\ result' = [result EXCEPT ![p] = {}]
          /\ resources' = ResourcesAfter(0)
          /\ UNCHANGED <<nextItem, cand>>
       \/ /\ nextItem <= MaxItems
          /\ \E imp \in Importances :
                cand' = [cand EXCEPT ![p] =
                           [imp |-> imp, id |-> nextItem,
                            res |-> Cardinality(resources) + 1]]
          /\ resources' = ResourcesAfter(1)
          /\ nextItem' = nextItem + 1
          /\ pc' = [pc EXCEPT ![p] = "assign"]
          /\ UNCHANGED result
    /\ UNCHANGED <<items, categories, mirror, warnings, useMemorySupersede,
                   now, tcat, tpath, hit, refused>>
    /\ UNCHANGED <<retrieveVars, schedVars, histVars>>
    /\ UNCHANGED <<scoreVars, formVars, otherVars>>

\* repository.vector_search_categories(embedding, limit=1, threshold):
\* the nearest category c, at similarity s, when s reaches the threshold.
vector_search_above(c, s) ==
    IF s > CategoryThreshold THEN <<c>> ELSE <<>>

vector_search_categories(c, s) ==
    IF s >= CategoryThreshold THEN <<c>> ELSE <<>>

\* Stage 2, _assign_category: the nearest category when there is one,
\* otherwise a suggested path that _ensure_category has to make exist.
AssignCategory(p) ==
    /\ pc[p] = "assign"
    /\ \/ \E c \in DOMAIN categories, s \in Sims :
             LET similar_categories == vector_search_categories(c, s) IN
             /\ near' = [near EXCEPT ![p] =
                            [cat |-> IF similar_categories # <<>>
                                     THEN similar_categories[1] ELSE None,
                             sim |-> s]]
             /\ IF similar_categories # <<>>
                THEN /\ tcat' = [tcat EXCEPT ![p] = similar_categories[1]]
                     /\ pc' = [pc EXCEPT ![p] = "check"]
                     /\ UNCHANGED tpath
                ELSE \E path \in SuggestPaths :
                     /\ tpath' = [tpath EXCEPT ![p] = path]
                     /\ pc' = [pc EXCEPT ![p] = "ensure"]
                     /\ UNCHANGED tcat
       \/ /\ DOMAIN categories = {}
          /\ \E path \in SuggestPaths :
                tpath' = [tpath EXCEPT ![p] = path]
          /\ pc' = [pc EXCEPT ![p] = "ensure"]
          /\ UNCHANGED <<tcat, near>>
    /\ UNCHANGED <<storeVars, nextItem, useMemorySupersede, now, cand, hit,
                   refused, result>>
    /\ UNCHANGED <<retrieveVars, schedVars, histVars>>
    /\ UNCHANGED <<scoreVars, formVars, chatVars, pageVars, bufferVars,
                   callVars, scoring>>

\* What a creation attempt does with the row that already has the path:
\* the same lineage (parent) resolves to it, another lineage is a naming
\* conflict.
ResolveAnyLineage(path, parent) ==
    CHOOSE x \in CategoriesAt(path) : TRUE

Resolve(path, parent) ==
    LET c == CHOOSE x \in CategoriesAt(path) : TRUE IN
    IF categories[c].parent = parent THEN c ELSE None

\* _ensure_category, first half: look the path up.
EnsureLookup(p) ==
    /\ pc[p] = "ensure"
    /\ IF CategoriesAt(tpath[p]) # {}
       THEN LET c == Resolve(tpath[p], None) IN
            /\ tcat' = [tcat EXCEPT ![p] = c]
            /\ pc' = [pc EXCEPT ![p] = IF c = None THEN "conflict" ELSE "check"]
       ELSE /\ pc' = [pc EXCEPT ![p] = "insert"]
            /\ UNCHANGED tcat
    /\ UNCHANGED <<storeVars, nextItem, useMemorySupersede, now, cand, tpath,
                   hit, refused, result>>
    /\ UNCHANGED <<retrieveVars, schedVars, histVars>>
    /\ UNCHANGED <<scoreVars, formVars, otherVars>>

\* _ensure_category, second half: insert the row; a refused insert (the
\* path appeared meanwhile) resolves to the row that is there.
EnsureInsert(p) ==
    /\ pc[p] = "insert"
    /\ IF InsertAllowed(tpath[p])
       THEN /\ DOMAIN categories # CatIds
            /\ categories' = Put(categories, FreshCat,
                                  NewCategory(tpath[p], None))
            /\ tcat' = [tcat EXCEPT ![p] = FreshCat]
            /\ pc' = [pc EXCEPT ![p] = "check"]
            /\ UNCHANGED refused
       ELSE LET c == Resolve(tpath[p], None) IN
            /\ tcat' = [tcat EXCEPT ![p] = c]
            /\ pc' = [pc EXCEPT ![p] = IF c = None THEN "conflict" ELSE "check"]
            /\ refused' = refused \cup {p}
            /\ UNCHANGED categories
    /\ UNCHANGED <<items, resources, mirror, warnings, nextItem,
                   useMemorySupersede, now, cand, tpath, hit, result>>
    /\ UNCHANGED <<retrieveVars, schedVars, histVars>>
    /\ UNCHANGED <<scoreVars, formVars, otherVars>>

\* The importance of a reinforced item: raised, but kept within [0,1].
BoostedUncapped(imp) == imp + ImportanceBoost

Boosted(imp) ==
    IF imp + ImportanceBoost > ImportanceMax
    THEN ImportanceMax ELSE imp + ImportanceBoost

\* Reinforcement of an existing item: one more mention, importance raised.
ReinforcedUncounted(row) ==
    [row EXCEPT !.importance = Boosted(@)]

Reinforced(row) ==
    [row EXCEPT !.mention_count = @ + 1, !.importance = Boosted(@)]

\* Deactivation of a superseded item, linked to the item replacing it.
SupersededStillActive(row, by) ==
    [row EXCEPT !.superseded_by = by]

Superseded(row, by) ==
    [row EXCEPT !.active = FALSE, !.superseded_by = by]

\* Stage 3 (and the reinforcement shortcut): with use_memory_supersede on,
\* an active item of the target category that is close to the candidate is
\* put to the contradiction judgment.
SupersedeCheck(p) ==
    /\ pc[p] = "check"
    /\ \/ /\ ~useMemorySupersede \/ ActiveIn(tcat[p]) = {}
          /\ pc' = [pc EXCEPT ![p] = "commit"]
          /\ UNCHANGED <<items, hit, result, quiet>>
       \/ /\ useMemorySupersede
          /\ \E o \in ActiveIn(tcat[p]), v \in Verdicts \cup {"far"} :
                CASE v = "supersede" ->
                       /\ items' = [items EXCEPT ![o] = Superseded(@, cand[p].id)]
                       /\ hit' = [hit EXCEPT ![p] = [item |-> o, verdict |-> v]]
                       /\ pc' = [pc EXCEPT ![p] = "commit"]
                       /\ quiet' = FALSE
                       /\ UNCHANGED result
                  [] v = "equivalent" ->
                       /\ items' = [items EXCEPT ![o] = Reinforced(@)]
                       /\ pc' = [pc EXCEPT ![p] = "done"]
                       /\ result' = [result EXCEPT ![p] = {}]
                       /\ hit' = [hit EXCEPT ![p] = [item |-> o, verdict |-> v]]
                       /\ quiet' = FALSE
                  [] OTHER ->
                       /\ pc' = [pc EXCEPT ![p] = "commit"]
                       /\ UNCHANGED <<items, hit, result, quiet>>
    /\ UNCHANGED <<categories, resources, mirror, warnings, nextItem,
                   useMemorySupersede, now, cand, tcat, tpath, refused>>
    /\ UNCHANGED <<retrieveVars, schedVars, prevSum, second>>
    /\ UNCHANGED <<scoreVars, formVars, otherVars>>

\* Stage 4, first write: the new item goes to the Fact Store (ok), or the
\* store is unavailable and the request fails.
CommitUnchecked(p, ok) ==
    /\ pc[p] \in {"check", "commit"}
    /\ IF ok
       THEN /\ items' = Put(items, cand[p].id,
                            NewItem(tcat[p], cand[p].imp, cand[p].res, now))
            /\ pc' = [pc EXCEPT ![p] = "mirror"]
            /\ quiet' = FALSE
       ELSE /\ pc' = [pc EXCEPT ![p] = "failed"]
            /\ UNCHANGED <<items, quiet>>
    /\ UNCHANGED <<categories, resources, mirror, warnings, nextItem,
                   useMemorySupersede, now, cand, tcat, tpath, hit, refused,
                   result>>
    /\ UNCHANGED <<retrieveVars, schedVars, prevSum, second>>
    /\ UNCHANGED <<scoreVars, formVars, otherVars>>

Commit(p, ok) ==
    /\ pc[p] = "commit"
    /\ IF ok
       THEN /\ items' = Put(items, cand[p].id,
                            NewItem(tcat[p], cand[p].imp, cand[p].res, now))
            /\ pc' = [pc EXCEPT ![p] = "mirror"]
            /\ quiet' = FALSE
       ELSE /\ pc' = [pc EXCEPT ![p] = "failed"]
            /\ UNCHANGED <<items, quiet>>
    /\ UNCHANGED <<categories, resources, mirror, warnings, nextItem,
                   useMemorySupersede, now, cand, tcat, tpath, hit, refused,
                   result>>
    /\ UNCHANGED <<retrieveVars, schedVars, prevSum, second>>
    /\ UNCHANGED <<scoreVars, formVars, otherVars>>

\* The memory_items table after the mirror append of item id was tried:
\* the first write is kept whatever the append did.
StoreRolledBack(id, ok) == IF ok THEN items ELSE Drop(items, {id})

StoreAfterMirror(id, ok) == items

\* Stage 4, second write: the line in the Markdown vault (ok); a failure
\* is logged and the request still returns its item.
MirrorOrFail(p, ok) ==
    /\ pc[p] = "mirror"
    /\ IF ok
       THEN /\ mirror' = mirror \cup {cand[p].id}
            /\ pc' = [pc EXCEPT ![p] = "done"]
            /\ result' = [result EXCEPT ![p] = {cand[p].id}]
            /\ UNCHANGED warnings
       ELSE /\ warnings' = warnings \cup {cand[p].id}
            /\ pc' = [pc EXCEPT ![p] = "failed"]
            /\ UNCHANGED <<mirror, result>>
    /\ items' = StoreAfterMirror(cand[p].id, ok)
    /\ UNCHANGED <<categories, resources, nextItem,
                   useMemorySupersede, now, cand, tcat, tpath, hit, refused>>
    /\ UNCHANGED <<retrieveVars, schedVars, histVars>>
    /\ UNCHANGED <<scoreVars, formVars, otherVars>>

Mirror(p, ok) ==
    /\ pc[p] = "mirror"
    /\ IF ok
       THEN /\ mirror' = mirror \cup {cand[p].id}
            /\ UNCHANGED warnings
       ELSE /\ warnings' = warnings \cup {cand[p].id}
            /\ UNCHANGED mirror
    /\ pc' = [pc EXCEPT ![p] = "done"]
    /\ result' = [result EXCEPT ![p] = {cand[p].id}]
    /\ items' = StoreAfterMirror(cand[p].id, ok)
    /\ UNCHANGED <<categories, resources, nextItem,
                   useMemorySupersede, now, cand, tcat, tpath, hit, refused>>
    /\ UNCHANGED <<retrieveVars, schedVars, histVars>>
    /\ UNCHANGED <<scoreVars, formVars, otherVars>>

\* The stages a request is in once its category is assigned.
Resolved == {"check", "commit", "mirror", "done", "failed"}

\* The request is answered and its task ends.
Return(p) ==
    /\ pc[p] \in {"done", "failed", "conflict"}
    /\ pc' = [pc EXCEPT ![p] = "idle"]
    /\ cand' = [cand EXCEPT ![p] = NoCand]
    /\ tcat' = [tcat EXCEPT ![p] = None]
    /\ tpath' = [tpath EXCEPT ![p] = <<>>]
    /\ hit' = [hit EXCEPT ![p] = NoHit]
    /\ refused' = refused \ {p}
    /\ result' = [result EXCEPT ![p] = {}]
    /\ near' = [near EXCEPT ![p] = NoNear]
    /\ UNCHANGED <<storeVars, nextItem, useMemorySupersede, now>>
    /\ UNCHANGED <<retrieveVars, schedVars, histVars>>
    /\ UNCHANGED <<scoreVars, formVars, chatVars, pageVars, bufferVars,
                   callVars, scoring>>

\* handleMemorySupersededToggle: the setting is stored by the backend.
SetMemorySupersede(enabled) ==
    /\ useMemorySupersede # enabled
    /\ useMemorySupersede' = enabled
    /\ UNCHANGED <<storeVars, ingestVars, now>>
    /\ UNCHANGED <<retrieveVars, schedVars, histVars>>
    /\ UNCHANGED <<scoreVars, formVars, otherVars>>

\* ------------------------------------------------------- recency
\* The score x after n more blocks of unit hours (unit is 1, 10 or 100):
\* one multiplication by the decay factor per hour.
RECURSIVE After(_, _, _, _)
After(x, decay, n, unit) ==
    IF n = 0 THEN x
    ELSE LET y == IF unit = 1
                  THEN (x * decay) \div DecayScale
                  ELSE After(x, decay, 10, unit \div 10)
         IN  IF y = 0 THEN 0 ELSE After(y, decay, n - 1, unit)

\* decay^hours in millionths.
Decayed(decay, hours) ==
    After(After(After(RecencyOne, decay, hours \div 100, 100),
                decay, (hours % 100) \div 10, 10),
          decay, hours % 10, 1)

\* Recency = decay^(hours since last access).
RecencyPerDay(decay, hours) == Decayed(decay, hours \div 24)

Recency(decay, hours) == Decayed(decay, hours)

\* ------------------------------------------------- retrieve pipeline
\* The hybrid search: of the items the index matches (vector and keyword
\* lists fused, relevance at or above the minimum), the active ones.
SearchHitsUnfiltered(matched) == matched

SearchHits(matched) == {i \in matched : items[i].active}

\* Query evolution: with conversation context the completion service
\* rewrites the query (text is its answer); without, no call is made.
evolve_query(query, conversation_context, text) ==
    IF conversation_context # <<>> THEN text ELSE NoQuery

\* The candidates whose fused relevance reaches the minimum threshold.
RelevantAll(rel) == DOMAIN rel

Relevant(rel) ==
    {i \in DOMAIN rel : rel[i] >= scoring.min_relevance_threshold}

RetrieveSearch ==
    /\ rpc = "idle"
    /\ rpc' = "searched"
    /\ \E mode \in Modes : rmode' = mode
    /\ \E query \in Queries, context \in Contexts, text \in Rewrites :
          /\ rquery' = query
          /\ rcontext' = context
          /\ rrewrote' = (context # <<>>)
          /\ rsearched' = IF context # <<>>
                          THEN evolve_query(query, context, text) ELSE query
          /\ rresult' = [rresult EXCEPT
                            !.query_evolved =
                                evolve_query(query, context, text)]
    /\ \E candidates \in SUBSET DOMAIN items :
          \E rel \in [candidates -> Relevances] :
             /\ rrel' = rel
             /\ rmatched' = Relevant(rel)
             /\ rhits' = SearchHits(Relevant(rel))
    /\ rstart' = now
    /\ rbefore' = [i \in DOMAIN items |-> items[i].last_accessed]
    /\ UNCHANGED <<storeVars, ingestVars, useMemorySupersede, now>>
    /\ UNCHANGED <<schedVars, histVars>>
    /\ UNCHANGED <<scoreVars, formVars, chatVars, pageVars, bufferVars,
                   near, scoring>>

\* A search with no conversation context in which every candidate the
\* index gives has the minimum relevance.
RetrieveSearchPlain ==
    /\ RetrieveSearch
    /\ rcontext' = <<>>
    /\ \A i \in DOMAIN rrel' : rrel'[i] = MinRelevance

\* A fast-mode search with no conversation context, started while no
\* memorize request is being served.
RetrieveSearchFast ==
    /\ \A p \in Procs : pc[p] = "idle"
    /\ RetrieveSearch
    /\ rmode' = "fast"
    /\ rcontext' = <<>>

\* The recency score, by decay factor and by the time since the last
\* access (the clock moves DaysPerTick days at a time).
RecencyAfter ==
    [decay \in DecayFactors \cup {DefaultDecay}, ticks \in 0..MaxNow |->
        Recency(decay, ticks * DaysPerTick * 24)]

\* Score = alpha_r x Relevance + alpha_c x Recency + alpha_i x Importance,
\* in ten-millionths.
Score(i) ==
    scoring.alpha_relevance * rrel[i] * (RecencyOne \div 100)
    + scoring.alpha_recency * RecencyAfter[recency_decay_factor,
                                          now - items[i].last_accessed]
    + scoring.alpha_importance * items[i].importance * (RecencyOne \div 10)

\* The orders of the hits by score, highest first.
RankedAscending(hits) ==
    LET score == [i \in hits |-> Score(i)] IN
    {f \in [1..Cardinality(hits) -> hits] :
        /\ \A j, k \in DOMAIN f : j # k => f[j] # f[k]
        /\ \A j, k \in DOMAIN f : j < k => score[f[j]] <= score[f[k]]}

Ranked(hits) ==
    LET score == [i \in hits |-> Score(i)] IN
    {f \in [1..Cardinality(hits) -> hits] :
        /\ \A j, k \in DOMAIN f : j # k => f[j] # f[k]
        /\ \A j, k \in DOMAIN f : j < k => score[f[j]] >= score[f[k]]}

\* class RetrievalResult
RetrievalResult(ranking, evolved, mode) ==
    [items |-> ranking,
     related_categories |-> {items[ranking[j]].cat : j \in DOMAIN ranking},
     suggested_context |-> "summary",
     query_evolved |-> evolved,
     retrieval_mode |-> mode,
     confidence_score |-> DefaultConfidence]

NoResult == RetrievalResult(<<>>, NoQuery, "fast")

\* Scoring (deep mode: reasoning over the category summaries), then the
\* write-through bump of last_accessed on what is returned.
Untouched(row, t) == row

Touched(row, t) == [row EXCEPT !.last_accessed = t]

RetrieveFinish ==
    /\ rpc = "searched"
    /\ rpc' = "done"
    /\ items' = [i \in DOMAIN items |->
                    IF i \in rhits THEN Touched(items[i], now) ELSE items[i]]
    /\ quiet' = (quiet /\ rhits \cap DOMAIN items = {})
    /\ \E ranking \in Ranked(rhits) :
          rresult' = RetrievalResult(ranking, rresult.query_evolved, rmode)
    /\ UNCHANGED <<categories, resources, mirror, warnings, ingestVars,
                   useMemorySupersede, now, rmode, rmatched, rhits>>
    /\ UNCHANGED <<schedVars, prevSum, second>>
    /\ UNCHANGED <<rstart, rbefore, rrel, rquery, rcontext, rrewrote,
                   rsearched>>
    /\ UNCHANGED <<scoreVars, formVars, chatVars, pageVars, bufferVars,
                   near, scoring>>

RetrieveReturn ==
    /\ rpc = "done"
    /\ rpc' = "idle"
    /\ rmatched' = {}
    /\ rhits' = {}
    /\ rstart' = 0
    /\ rbefore' = <<>>
    /\ rrel' = <<>>
    /\ rquery' = NoQuery
    /\ rcontext' = <<>>
    /\ rrewrote' = FALSE
    /\ rsearched' = NoQuery
    /\ rresult' = NoResult
    /\ UNCHANGED <<storeVars, ingestVars, useMemorySupersede, now, rmode>>
    /\ UNCHANGED <<schedVars, histVars>>
    /\ UNCHANGED <<scoreVars, formVars, chatVars, pageVars, bufferVars,
                   near, scoring>>

\* ------------------------------------------------------------ clock
\* DaysPerTick days pass. A request is answered long before that, so the
\* clock moves between requests.
Tick ==
    /\ now < MaxNow
    /\ \A p \in Procs : pc[p] = "idle"
    /\ rpc = "idle"
    /\ now' = now + 1
    /\ UNCHANGED <<storeVars, ingestVars, useMemorySupersede>>
    /\ UNCHANGED <<retrieveVars, schedVars, histVars>>
    /\ UNCHANGED <<scoreVars, formVars, otherVars>>

\* ------------------------------------------------- consolidate pipeline
InFlight == {r \in Runners : cpc[r] # "idle"}

SummariesNow(cats) == [c \in DOMAIN cats |-> cats[c].summary]

\* repository.get_stale_items: the items not accessed for the given days.
get_stale_items(days_threshold) ==
    {i \in DOMAIN items :
        (now - items[i].last_accessed) * DaysPerTick >= days_threshold}

\* The memory_items table after the stale scan: the branch taken for a
\* large stale set is "pass".
StaleArchived(stale_items) ==
    IF Cardinality(stale_items) > MaxStaleItems
    THEN [i \in DOMAIN items |->
            IF i \in stale_items
            THEN [items[i] EXCEPT !.active = FALSE] ELSE items[i]]
    ELSE items

AfterStaleScan(stale_items) ==
    IF Cardinality(stale_items) > MaxStaleItems THEN items ELSE items

\* ConsolidatePipeline.execute up to the first category: the stale scan,
\* then get_all_categories gives the list both loops walk.
ConsolidateStart(r) ==
    /\ items' = AfterStaleScan(get_stale_items(StaleDays))
    /\ cpc[r] = "idle"
    /\ IF DOMAIN categories = {}
       THEN /\ prevSum' = SummariesNow(categories)
            /\ quiet' = TRUE
            /\ UNCHANGED <<cpc, ctodo, csnap, second>>
       ELSE /\ cpc' = [cpc EXCEPT ![r] = "refresh"]
            /\ ctodo' = [ctodo EXCEPT ![r] = DOMAIN categories]
            /\ csnap' = [csnap EXCEPT ![r] = DOMAIN categories]
            /\ second' = [x \in Runners |->
                             x = r /\ DOMAIN prevSum # {} /\ quiet
                                   /\ InFlight = {}]
            /\ UNCHANGED <<prevSum, quiet>>
    /\ UNCHANGED <<categories, resources, mirror, warnings, ingestVars,
                   useMemorySupersede, now>>
    /\ UNCHANGED <<retrieveVars, jobs>>

\* One turn of the summary loop: a category that has items gets the text
\* summarize_category returns for them.
Refresh(r) ==
    /\ cpc[r] = "refresh"
    /\ LET c == Min(ctodo[r]) IN
       /\ IF ItemsIn(c) # {}
          THEN \E s \in Summaries :
                  categories' = [categories EXCEPT ![c].summary = s]
          ELSE UNCHANGED categories
       /\ IF ctodo[r] = {c}
          THEN /\ cpc' = [cpc EXCEPT ![r] = "split"]
               /\ ctodo' = [ctodo EXCEPT ![r] = csnap[r]]
          ELSE /\ ctodo' = [ctodo EXCEPT ![r] = @ \ {c}]
               /\ UNCHANGED cpc
    /\ UNCHANGED <<items, resources, mirror, warnings, ingestVars,
                   useMemorySupersede, now>>
    /\ UNCHANGED <<retrieveVars, jobs, running, csnap, reply, histVars>>
    /\ UNCHANGED <<scoreVars, formVars, otherVars>>

_category_is_too_large(c) == Cardinality(ActiveIn(c)) > MaxCategoryItems

\* _split_category, one subcategory: make the child path exist under the
\* parent, then move the assigned items to it. st carries the two tables
\* and whether a naming conflict has stopped the split.
SplitIntoFlat(st, parent, name, assigned) ==
    LET new_path == <<name>>
        at == {c \in DOMAIN st.cats : st.cats[c].path = new_path}
        old == CHOOSE c \in at : TRUE
        fresh == Min(CatIds \ DOMAIN st.cats)
        child == IF at = {} THEN fresh ELSE old
    IN  IF ~st.ok THEN st
        ELSE IF at # {} /\ st.cats[old].parent # parent
        THEN [st EXCEPT !.ok = FALSE]
        ELSE [cats |-> IF at = {}
                       THEN Put(st.cats, fresh, NewCategory(new_path, parent))
                       ELSE st.cats,
              its |-> [i \in DOMAIN st.its |->
                         IF i \in assigned
                         THEN [st.its[i] EXCEPT !.cat = child]
                         ELSE st.its[i]],
              ok |-> TRUE]

SplitInto(st, parent, name, assigned) ==
    LET new_path == Append(st.cats[parent].path, name)
        at == {c \in DOMAIN st.cats : st.cats[c].path = new_path}
        old == CHOOSE c \in at : TRUE
        fresh == Min(CatIds \ DOMAIN st.cats)
        child == IF at = {} THEN fresh ELSE old
    IN  IF ~st.ok THEN st
        ELSE IF at # {} /\ st.cats[old].parent # parent
        THEN [st EXCEPT !.ok = FALSE]
        ELSE [cats |-> IF at = {}
                       THEN Put(st.cats, fresh, NewCategory(new_path, parent))
                       ELSE st.cats,
              its |-> [i \in DOMAIN st.its |->
                         IF i \in assigned
                         THEN [st.its[i] EXCEPT !.cat = child]
                         ELSE st.its[i]],
              ok |-> TRUE]

SplitResult(c, asg) ==
    LET st0 == [cats |-> categories, its |-> items, ok |-> TRUE]
        sta == IF \E i \in DOMAIN asg : asg[i] = "a"
               THEN SplitInto(st0, c, "a", {i \in DOMAIN asg : asg[i] = "a"})
               ELSE st0
    IN  IF \E i \in DOMAIN asg : asg[i] = "b"
        THEN SplitInto(sta, c, "b", {i \in DOMAIN asg : asg[i] = "b"})
        ELSE sta

\* The end of a run: the job is no longer running, and the summaries it
\* leaves are remembered.
Finished(r, cats) ==
    /\ cpc' = [cpc EXCEPT ![r] = "idle"]
    /\ ctodo' = [ctodo EXCEPT ![r] = {}]
    /\ csnap' = [csnap EXCEPT ![r] = {}]
    /\ running' = IF r = "manual"
                  THEN [running EXCEPT !["maintenance"] = FALSE]
                  ELSE running
    /\ second' = [second EXCEPT ![r] = FALSE]
    /\ prevSum' = SummariesNow(cats)
    /\ quiet' = TRUE

\* An exception raised inside execute: neither loop catches it, so it leaves
\* execute and ends the run; _loop logs "Job failed" and goes on to its
\* next job. The run did not finish, so its summaries are not remembered.
Aborted(r) ==
    /\ cpc' = [cpc EXCEPT ![r] = "idle"]
    /\ ctodo' = [ctodo EXCEPT ![r] = {}]
    /\ csnap' = [csnap EXCEPT ![r] = {}]
    /\ running' = IF r = "manual"
                  THEN [running EXCEPT !["maintenance"] = FALSE]
                  ELSE running
    /\ second' = [second EXCEPT ![r] = FALSE]
    /\ quiet' = FALSE
    /\ UNCHANGED prevSum

\* One turn of the summary loop in which summarize_category (or one of the
\* two summary writes) raises.
RefreshFails(r) ==
    /\ cpc[r] = "refresh"
    /\ ItemsIn(Min(ctodo[r])) # {}
    /\ Aborted(r)
    /\ UNCHANGED <<storeVars, ingestVars, useMemorySupersede, now>>
    /\ UNCHANGED <<retrieveVars, jobs, reply>>
    /\ UNCHANGED <<scoreVars, formVars, otherVars>>

\* One turn of the split loop. suggest_subcategories names a subcategory
\* for some of the category's items; a naming conflict raises out of
\* execute and ends the run.
Split(r) ==
    /\ cpc[r] = "split"
    /\ LET c == Min(ctodo[r]) IN
       \/ /\ ~_category_is_too_large(c)
          /\ UNCHANGED <<items, categories>>
          /\ IF ctodo[r] = {c}
             THEN Finished(r, categories)
             ELSE /\ ctodo' = [ctodo EXCEPT ![r] = @ \ {c}]
                  /\ UNCHANGED <<cpc, csnap, running, histVars>>
       \/ /\ _category_is_too_large(c)
          /\ \E S \in SUBSET ItemsIn(c) : \E asg \in [S -> SubNames] :
                LET st == SplitResult(c, asg)
                    used == {asg[i] : i \in S}
                IN
                /\ Cardinality(DOMAIN categories) + Cardinality(used)
                      <= MaxCats
                /\ items' = st.its
                /\ categories' = st.cats
                /\ IF ~st.ok
                   THEN Aborted(r)
                   ELSE IF ctodo[r] = {c}
                   THEN Finished(r, st.cats)
                   ELSE /\ ctodo' = [ctodo EXCEPT ![r] = @ \ {c}]
                        /\ UNCHANGED <<cpc, csnap, running, histVars>>
    /\ UNCHANGED <<resources, mirror, warnings, ingestVars,
                   useMemorySupersede, now>>
    /\ UNCHANGED <<retrieveVars, jobs, reply>>
    /\ UNCHANGED <<scoreVars, formVars, otherVars>>

\* ------------------------------------------------------ scheduled jobs
\* memory_cleanup: deletes the items not accessed for 30 days whose
\* importance is below 0.3.
CleanupTargets ==
    {i \in DOMAIN items :
        /\ (now - items[i].last_accessed) * DaysPerTick >= CleanupDays
        /\ items[i].importance < CleanupImportance}

MemoryCleanup ==
    /\ items' = Drop(items, CleanupTargets)
    /\ quiet' = (quiet /\ CleanupTargets = {})

\* handleAddTask / handleDeleteTask: a custom job is registered or removed.
AddScheduledJob(job) ==
    /\ job \notin jobs
    /\ jobs' = jobs \cup {job}
    /\ UNCHANGED <<storeVars, ingestVars, useMemorySupersede, now>>
    /\ UNCHANGED <<retrieveVars, running, cpc, ctodo, csnap, reply, histVars>>
    /\ UNCHANGED <<scoreVars, formVars, otherVars>>

DeleteScheduledJob(job) ==
    /\ job \in jobs \ SystemJobs
    /\ jobs' = jobs \ {job}
    /\ UNCHANGED <<storeVars, ingestVars, useMemorySupersede, now>>
    /\ UNCHANGED <<retrieveVars, running, cpc, ctodo, csnap, reply, histVars>>
    /\ UNCHANGED <<scoreVars, formVars, otherVars>>

\* CronScheduler._loop: a job that is due is awaited; the loop goes on to
\* the next job only when the awaited one has returned. Here the job is
\* maintenance, whose func awaits system.consolidate().
LoopMaintenance ==
    /\ "maintenance" \in jobs
    /\ cpc["timer"] = "idle"
    /\ ConsolidateStart("timer")
    /\ UNCHANGED <<running, reply>>
    /\ UNCHANGED <<scoreVars, formVars, otherVars>>

\* CronScheduler._loop awaiting a memory_cleanup job.
LoopCleanup ==
    /\ "memory_cleanup" \in jobs
    /\ cpc["timer"] = "idle"
    /\ MemoryCleanup
    /\ UNCHANGED <<categories, resources, mirror, warnings, ingestVars,
                   useMemorySupersede, now>>
    /\ UNCHANGED <<retrieveVars, schedVars, prevSum, second>>
    /\ UNCHANGED <<scoreVars, formVars, otherVars>>

\* scheduler.trigger_job: a job that is marked running is not started
\* again; otherwise it is marked and awaited.
trigger_job(job) ==
    IF running[job] THEN "already running" ELSE "started"

\* POST /jobs/{job_name}/trigger: awaits scheduler.trigger_job and answers
\* {"status": "triggered"}. busy records whether a consolidate run was in
\* flight when the request arrived.
TriggerMaintenance ==
    /\ "maintenance" \in jobs
    /\ cpc["manual"] = "idle"
    /\ reply' = [status |-> "triggered", busy |-> InFlight # {}]
    /\ IF trigger_job("maintenance") = "already running"
       THEN /\ UNCHANGED <<storeVars, ingestVars, useMemorySupersede, now>>
            /\ UNCHANGED <<retrieveVars, jobs, running, cpc, ctodo, csnap,
                           histVars>>
       ELSE /\ running' = [running EXCEPT !["maintenance"] =
                             DOMAIN categories # {}]
            /\ ConsolidateStart("manual")
    /\ UNCHANGED <<scoreVars, formVars, otherVars>>

TriggerCleanup ==
    /\ "memory_cleanup" \in jobs
    /\ reply' = [status |-> "triggered", busy |-> InFlight # {}]
    /\ IF trigger_job("memory_cleanup") = "already running"
       THEN UNCHANGED <<items, quiet>>
       ELSE MemoryCleanup
    /\ UNCHANGED <<categories, resources, mirror, warnings, ingestVars,
                   useMemorySupersede, now>>
    /\ UNCHANGED <<retrieveVars, jobs, running, cpc, ctodo, csnap, prevSum,
                   second>>
    /\ UNCHANGED <<scoreVars, formVars, otherVars>>

\* ------------------------------------------------------------ scoring
\* An hour passes without the item being accessed.
HourPasses ==
    /\ elapsed < MaxHours
    /\ elapsed' = elapsed + 1
    /\ recency' = Recency(recency_decay_factor, elapsed + 1)
    /\ UNCHANGED <<storeVars, ingestVars, useMemorySupersede, now>>
    /\ UNCHANGED <<retrieveVars, schedVars, histVars, formVars, otherVars>>
    /\ UNCHANGED recency_decay_factor

\* The item is returned by a retrieve: last_accessed is now.
Accessed ==
    /\ elapsed > 0
    /\ elapsed' = 0
    /\ recency' = Recency(recency_decay_factor, 0)
    /\ UNCHANGED <<storeVars, ingestVars, useMemorySupersede, now>>
    /\ UNCHANGED <<retrieveVars, schedVars, histVars, formVars, otherVars>>
    /\ UNCHANGED recency_decay_factor

\* ScoringSection handleSave('recency_decay_factor', value).
SetDecayFactor(value) ==
    /\ value # recency_decay_factor
    /\ recency_decay_factor' = value
    /\ recency' = Recency(value, elapsed)
    /\ UNCHANGED <<storeVars, ingestVars, useMemorySupersede, now>>
    /\ UNCHANGED <<retrieveVars, schedVars, histVars, formVars, otherVars>>
    /\ UNCHANGED elapsed

\* ScoringSection handleSave of one of the three weights.
SetAlpha(key, value) ==
    /\ scoring[key] # value
    /\ scoring' = [scoring EXCEPT ![key] = value]
    /\ UNCHANGED <<storeVars, ingestVars, useMemorySupersede, now>>
    /\ UNCHANGED <<retrieveVars, schedVars, histVars, scoreVars, formVars>>
    /\ UNCHANGED <<chatVars, pageVars, bufferVars, near, callVars>>

\* ------------------------------------------------------ add-task form
\* String.prototype.trim on a text kept as a sequence of characters.
RECURSIVE TrimStart(_)
TrimStart(text) ==
    IF text # <<>> /\ Head(text) = " " THEN TrimStart(Tail(text)) ELSE text

RECURSIVE TrimEnd(_)
TrimEnd(text) ==
    IF text # <<>> /\ text[Len(text)] = " "
    THEN TrimEnd(SubSeq(text, 1, Len(text) - 1)) ELSE text

Trim(text) == TrimEnd(TrimStart(text))

\* fetchTasks: the job type field takes the first job type when it is
\* still empty.
FetchTasks ==
    /\ newTaskType = ""
    /\ newTaskType' = "maintenance"
    /\ UNCHANGED <<newTaskName, newTaskInterval, showAddTask, taskError,
                   posted>>
    /\ UNCHANGED <<storeVars, ingestVars, useMemorySupersede, now>>
    /\ UNCHANGED <<retrieveVars, schedVars, histVars, scoreVars, otherVars>>

\* The buttons that open and close the form.
SetShowAddTask(open) ==
    /\ showAddTask # open
    /\ showAddTask' = open
    /\ UNCHANGED <<newTaskName, newTaskType, newTaskInterval, taskError,
                   posted>>
    /\ UNCHANGED <<storeVars, ingestVars, useMemorySupersede, now>>
    /\ UNCHANGED <<retrieveVars, schedVars, histVars, scoreVars, otherVars>>

\* onChange of the three fields.
SetNewTaskName(value) ==
    /\ showAddTask
    /\ newTaskName # value
    /\ newTaskName' = value
    /\ UNCHANGED <<newTaskType, newTaskInterval, showAddTask, taskError,
                   posted>>
    /\ UNCHANGED <<storeVars, ingestVars, useMemorySupersede, now>>
    /\ UNCHANGED <<retrieveVars, schedVars, histVars, scoreVars, otherVars>>

SetNewTaskType(value) ==
    /\ showAddTask
    /\ newTaskType # value
    /\ newTaskType' = value
    /\ UNCHANGED <<newTaskName, newTaskInterval, showAddTask, taskError,
                   posted>>
    /\ UNCHANGED <<storeVars, ingestVars, useMemorySupersede, now>>
    /\ UNCHANGED <<retrieveVars, schedVars, histVars, scoreVars, otherVars>>

SetNewTaskInterval(value) ==
    /\ showAddTask
    /\ newTaskInterval # value
    /\ newTaskInterval' = value
    /\ UNCHANGED <<newTaskName, newTaskType, showAddTask, taskError,
                   posted>>
    /\ UNCHANGED <<storeVars, ingestVars, useMemorySupersede, now>>
    /\ UNCHANGED <<retrieveVars, schedVars, histVars, scoreVars, otherVars>>

\* handleAddTask: returns at once on a blank name or an empty type;
\* otherwise sends the form to POST /schedule/jobs. When the server accepts
\* (ok) the job is registered and the form is cleared and closed; when it
\* rejects, the error is shown.
handleAddTask(ok) ==
    /\ showAddTask
    /\ ~(Trim(newTaskName) = <<>> \/ newTaskType = "")
    /\ posted' = posted \cup {newTaskInterval}
    /\ IF ok
       THEN /\ jobs' = jobs \cup {newTaskType}
            /\ newTaskName' = <<>>
            /\ showAddTask' = FALSE
            /\ taskError' = FALSE
       ELSE /\ taskError' = TRUE
            /\ UNCHANGED <<jobs, newTaskName, showAddTask>>
    /\ UNCHANGED <<newTaskType, newTaskInterval>>
    /\ UNCHANGED <<storeVars, ingestVars, useMemorySupersede, now>>
    /\ UNCHANGED <<retrieveVars, running, cpc, ctodo, csnap, reply>>
    /\ UNCHANGED <<histVars, scoreVars, otherVars>>

\* ------------------------------------------------- conversation buffer
\* Everything of the program outside the conversation buffer and the UI.
coreVars == <<storeVars, ingestVars, useMemorySupersede, now,
              retrieveVars, schedVars, histVars, scoreVars, formVars,
              near, callVars, scoring>>

\* add_to_buffer: the message is appended and the buffer saved.
add_to_buffer ==
    /\ nextMessage <= MaxBuffered
    /\ conversation_buffer' = Append(conversation_buffer, nextMessage)
    /\ buffer_file' = Append(conversation_buffer, nextMessage)
    /\ nextMessage' = nextMessage + 1
    /\ UNCHANGED <<fpc, fsent, memorized>>
    /\ UNCHANGED <<coreVars, chatVars, pageVars>>

\* flush_buffer, first step: the buffer's content goes to the memorize
\* pipeline, which is awaited.
FlushSend(f) ==
    /\ fpc' = [fpc EXCEPT ![f] = "sent"]
    /\ fsent' = [fsent EXCEPT ![f] = conversation_buffer]
    /\ memorized' = [m \in DOMAIN memorized |->
                       IF \E k \in DOMAIN conversation_buffer :
                             conversation_buffer[k] = m
                       THEN memorized[m] + 1 ELSE memorized[m]]
    /\ UNCHANGED <<conversation_buffer, buffer_file, nextMessage>>

\* check_and_flush: flush_buffer starts when the buffer has reached
\* buffer_size_limit.
check_and_flush ==
    /\ fpc["auto"] = "idle"
    /\ IF Len(conversation_buffer) >= buffer_size_limit
       THEN FlushSend("auto")
       ELSE UNCHANGED bufferVars
    /\ UNCHANGED <<coreVars, chatVars, pageVars>>

\* POST /buffer/flush (handleFlush of the chat page): flush_buffer starts.
flushBuffer ==
    /\ fpc["manual"] = "idle"
    /\ conversation_buffer # <<>>
    /\ FlushSend("manual")
    /\ UNCHANGED <<coreVars, chatVars, pageVars>>

\* flush_buffer, after the memorize pipeline has returned: the buffer is
\* reset and its file deleted.
FlushReset(f) ==
    /\ fpc[f] = "sent"
    /\ conversation_buffer' = <<>>
    /\ buffer_file' = <<>>
    /\ fpc' = [fpc EXCEPT ![f] = "idle"]
    /\ fsent' = [fsent EXCEPT ![f] = <<>>]
    /\ UNCHANGED <<nextMessage, memorized>>
    /\ UNCHANGED <<coreVars, chatVars, pageVars>>

\* ------------------------------------------------------ chat store
\* Everything of the program outside the chat store.
backendVars == <<coreVars, bufferVars>>

\* `Chat ${index}`
ChatName(index) ==
    <<"Chat 1", "Chat 2", "Chat 3", "Chat 4", "Chat 5", "Chat 6">>[index]

\* createNewSession: a session under a new id, holding the greeting
\* (message '1'). The timestamps of a session are not kept.
createNewSession(id, index) ==
    [id |-> id, name |-> ChatName(index), messages |-> <<1>>,
     mode |-> "fast", selectedMessageId |-> None]

\* crypto.randomUUID(): an id no session of the store has.
randomUUID == Min(SessionIds \ {sessions[k].id : k \in DOMAIN sessions})

\* sessions.filter(s => s.id !== id)
RECURSIVE SessionsWithout(_, _)
SessionsWithout(list, id) ==
    IF list = <<>> THEN <<>>
    ELSE IF Head(list).id = id THEN SessionsWithout(Tail(list), id)
    ELSE <<Head(list)>> \o SessionsWithout(Tail(list), id)

createSessionUnlimited ==
    /\ Len(sessions) < Cardinality(SessionIds)
    /\ LET newSession == createNewSession(randomUUID, Len(sessions) + 1) IN
       /\ sessions' = Append(sessions, newSession)
       /\ activeSessionId' = newSession.id
    /\ UNCHANGED <<backendVars, pageVars>>

createSession ==
    /\ IF Len(sessions) >= MAX_SESSIONS
       THEN UNCHANGED <<sessions, activeSessionId>>
       ELSE LET newSession ==
                   createNewSession(randomUUID, Len(sessions) + 1) IN
            /\ sessions' = Append(sessions, newSession)
            /\ activeSessionId' = newSession.id
    /\ UNCHANGED <<backendVars, pageVars>>

deleteSession(id) ==
    /\ IF Len(sessions) = 1
       THEN LET newSession == createNewSession(randomUUID, 1) IN
            /\ sessions' = <<newSession>>
            /\ activeSessionId' = newSession.id
       ELSE LET filtered == SessionsWithout(sessions, id)
                newActiveId == IF activeSessionId = id
                               THEN IF filtered # <<>>
                                    THEN filtered[1].id ELSE None
                               ELSE activeSessionId
            IN  /\ sessions' = filtered
                /\ activeSessionId' = newActiveId
    /\ UNCHANGED <<backendVars, pageVars>>

setActiveSessionUnchecked(id) ==
    /\ activeSessionId' = id
    /\ UNCHANGED sessions
    /\ UNCHANGED <<backendVars, pageVars>>

setActiveSession(id) ==
    /\ IF \E k \in DOMAIN sessions : sessions[k].id = id
       THEN activeSessionId' = id
       ELSE UNCHANGED activeSessionId
    /\ UNCHANGED sessions
    /\ UNCHANGED <<backendVars, pageVars>>

renameSession(id, name) ==
    /\ sessions' = [k \in DOMAIN sessions |->
                      IF sessions[k].id = id
                      THEN [sessions[k] EXCEPT !.name = name]
                      ELSE sessions[k]]
    /\ UNCHANGED activeSessionId
    /\ UNCHANGED <<backendVars, pageVars>>

addMessage(message) ==
    /\ \A k \in DOMAIN sessions :
          sessions[k].id = activeSessionId
          => Len(sessions[k].messages) < MaxMessages
    /\ IF activeSessionId = None
       THEN UNCHANGED sessions
       ELSE sessions' = [k \in DOMAIN sessions |->
                           IF sessions[k].id = activeSessionId
                           THEN [sessions[k] EXCEPT
                                   !.messages = Append(@, message)]
                           ELSE sessions[k]]
    /\ UNCHANGED activeSessionId
    /\ UNCHANGED <<backendVars, pageVars>>

setMode(mode) ==
    /\ IF activeSessionId = None
       THEN UNCHANGED sessions
       ELSE sessions' = [k \in DOMAIN sessions |->
                           IF sessions[k].id = activeSessionId
                           THEN [sessions[k] EXCEPT !.mode = mode]
                           ELSE sessions[k]]
    /\ UNCHANGED activeSessionId
    /\ UNCHANGED <<backendVars, pageVars>>

setSelectedMessage(messageId) ==
    /\ IF activeSessionId = None
       THEN UNCHANGED sessions
       ELSE sessions' = [k \in DOMAIN sessions |->
                           IF sessions[k].id = activeSessionId
                           THEN [sessions[k] EXCEPT
                                   !.selectedMessageId = messageId]
                           ELSE sessions[k]]
    /\ UNCHANGED activeSessionId
    /\ UNCHANGED <<backendVars, pageVars>>

\* The page is loaded again: the persisted state comes back and
\* onRehydrateStorage gives it an active session when it has none.
onRehydrateStorage ==
    /\ activeSessionId' = IF activeSessionId = None /\ Len(sessions) > 0
                          THEN sessions[1].id ELSE activeSessionId
    /\ UNCHANGED sessions
    /\ UNCHANGED <<backendVars, pageVars>>

\* The user writes in, and changes the mode and the selection of, the
\* chat with the first id only, while it heads the list, and renames that
\* chat only.
FirstChat == sessions[1].id = 1 /\ activeSessionId \in {None, 1}

renameFirst(name) == sessions[1].id = 1 /\ renameSession(1, name)

addMessageFirst(message) == FirstChat /\ addMessage(message)

setModeFirst(mode) == FirstChat /\ setMode(mode)

setSelectedMessageFirst(messageId) ==
    FirstChat /\ setSelectedMessage(messageId)

\* ------------------------------------------------------ chat page
Greeting == [role |-> "assistant", kind |-> "greeting"]

\* onChange of the input field.
setInput(value) ==
    /\ input' = value
    /\ UNCHANGED <<isLoading, messages, chatMode, selectedMessage, inFlight>>
    /\ UNCHANGED <<backendVars, chatVars>>

\* The mode toggle of the header.
setChatMode(value) ==
    /\ chatMode' = value
    /\ UNCHANGED <<input, isLoading, messages, selectedMessage, inFlight>>
    /\ UNCHANGED <<backendVars, chatVars>>

\* handleSend up to its await: Enter or the send button. Nothing happens
\* on an empty input or while a request is awaited; otherwise the user
\* message is appended and api.conversation is called.
handleSendAnyTime ==
    /\ Cardinality({k \in DOMAIN messages : messages[k].role = "user"})
          < MaxSends
    /\ IF Trim(input) = <<>>
       THEN UNCHANGED <<input, isLoading, messages, inFlight>>
       ELSE /\ messages' = Append(messages,
                                  [role |-> "user", kind |-> "text"])
            /\ input' = <<>>
            /\ isLoading' = TRUE
            /\ inFlight' = inFlight + 1
    /\ UNCHANGED <<chatMode, selectedMessage>>
    /\ UNCHANGED <<backendVars, chatVars>>

handleSend ==
    /\ Cardinality({k \in DOMAIN messages : messages[k].role = "user"})
          < MaxSends
    /\ IF Trim(input) = <<>> \/ isLoading
       THEN UNCHANGED <<input, isLoading, messages, inFlight>>
       ELSE /\ messages' = Append(messages,
                                  [role |-> "user", kind |-> "text"])
            /\ input' = <<>>
            /\ isLoading' = TRUE
            /\ inFlight' = inFlight + 1
    /\ UNCHANGED <<chatMode, selectedMessage>>
    /\ UNCHANGED <<backendVars, chatVars>>

\* handleSend after its await: the request settles with a reply (ok), which
\* is selected when it carries memories, or with an error; then the
\* finally block.
conversationSettles(ok, memories) ==
    /\ inFlight > 0
    /\ inFlight' = inFlight - 1
    /\ IF ok
       THEN /\ messages' = Append(messages,
                                  [role |-> "assistant", kind |-> "reply"])
            /\ selectedMessage' = IF memories
                                  THEN Len(messages) + 1
                                  ELSE selectedMessage
       ELSE /\ messages' = Append(messages,
                                  [role |-> "assistant", kind |-> "error"])
            /\ UNCHANGED selectedMessage
    /\ isLoading' = FALSE
    /\ UNCHANGED <<input, chatMode>>
    /\ UNCHANGED <<backendVars, chatVars>>

\* ------------------------------------------------------ specification
Init ==
    /\ items = <<>>
    /\ categories = <<>>
    /\ resources = {}
    /\ mirror = {}
    /\ warnings = {}
    /\ nextItem = 1
    /\ useMemorySupersede = FALSE
    /\ now = 0
    /\ pc = [p \in Procs |-> "idle"]
    /\ cand = [p \in Procs |-> NoCand]
    /\ tcat = [p \in Procs |-> None]
    /\ tpath = [p \in Procs |-> <<>>]
    /\ hit = [p \in Procs |-> NoHit]
    /\ refused = {}
    /\ result = [p \in Procs |-> {}]
    /\ rpc = "idle"
    /\ rmode = "fast"
    /\ rmatched = {}
    /\ rhits = {}
    /\ jobs = SystemJobs
    /\ running = [j \in JobTypes |-> FALSE]
    /\ cpc = [r \in Runners |-> "idle"]
    /\ ctodo = [r \in Runners |-> {}]
    /\ csnap = [r \in Runners |-> {}]
    /\ reply = [status |-> "none", busy |-> FALSE]
    /\ prevSum = <<>>
    /\ quiet = FALSE
    /\ second = [r \in Runners |-> FALSE]
    /\ recency_decay_factor = DefaultDecay
    /\ elapsed = 0
    /\ recency = Recency(DefaultDecay, 0)
    /\ newTaskName = <<>>
    /\ newTaskType = ""
    /\ newTaskInterval = DefaultInterval
    /\ showAddTask = FALSE
    /\ taskError = FALSE
    /\ posted = {}
    /\ sessions = <<createNewSession(1, 1)>>
    /\ activeSessionId = None
    /\ input = <<>>
    /\ isLoading = FALSE
    /\ messages = <<Greeting>>
    /\ chatMode = "fast"
    /\ selectedMessage = None
    /\ inFlight = 0
    /\ conversation_buffer = <<>>
    /\ buffer_file = <<>>
    /\ nextMessage = 1
    /\ fpc = [f \in Flushers |-> "idle"]
    /\ fsent = [f \in Flushers |-> <<>>]
    /\ memorized = [m \in 1..MaxBuffered |-> 0]
    /\ near = [p \in Procs |-> NoNear]
    /\ rstart = 0
    /\ rbefore = <<>>
    /\ rrel = <<>>
    /\ rquery = NoQuery
    /\ rcontext = <<>>
    /\ rrewrote = FALSE
    /\ rsearched = NoQuery
    /\ rresult = NoResult
    /\ scoring = [alpha_relevance |-> DefaultAlpha,
                  alpha_recency |-> DefaultAlpha,
                  alpha_importance |-> DefaultAlpha,
                  min_relevance_threshold |-> MinRelevance]

\* One client's memorize requests, the clock and the memory_cleanup job,
\* run by the scheduler loop and by manual triggers.
Next ==
    \/ Extract("p1")
    \/ AssignCategory("p1")
    \/ EnsureLookup("p1")
    \/ EnsureInsert("p1")
    \/ SupersedeCheck("p1")
    \/ Commit("p1", TRUE)
    \/ Mirror("p1", TRUE)
    \/ Return("p1")
    \/ \E b \in BOOLEAN : SetMemorySupersede(b)
    \/ Tick
    \/ AddScheduledJob("memory_cleanup")
    \/ DeleteScheduledJob("memory_cleanup")
    \/ LoopCleanup
    \/ TriggerCleanup

Spec == Init /\ [][Next]_vars

\* One client's memorize requests next to a retrieve request.
RetrieveNext ==
    \/ Extract("p1")
    \/ AssignCategory("p1")
    \/ EnsureLookup("p1")
    \/ EnsureInsert("p1")
    \/ SupersedeCheck("p1")
    \/ Commit("p1", TRUE)
    \/ Mirror("p1", TRUE)
    \/ Return("p1")
    \/ \E b \in BOOLEAN : SetMemorySupersede(b)
    \/ RetrieveSearchPlain
    \/ RetrieveFinish
    \/ RetrieveReturn

RetrieveSpec == Init /\ [][RetrieveNext]_vars

\* One client's memorize requests with the supersede check on or off and a
\* store that may be unavailable at the commit, next to a retrieve request.
SupersedeNext ==
    \/ Extract("p1")
    \/ AssignCategory("p1")
    \/ EnsureLookup("p1")
    \/ EnsureInsert("p1")
    \/ SupersedeCheck("p1")
    \/ \E ok \in BOOLEAN : Commit("p1", ok)
    \/ Mirror("p1", TRUE)
    \/ Return("p1")
    \/ \E b \in BOOLEAN : SetMemorySupersede(b)
    \/ RetrieveSearchPlain
    \/ RetrieveFinish
    \/ RetrieveReturn

SupersedeSpec == Init /\ [][SupersedeNext]_vars

\* Two memorize requests served concurrently, with failing writes.
RaceNext ==
    \/ \E p \in Procs : Extract(p)
    \/ \E p \in Procs : AssignCategory(p)
    \/ \E p \in Procs : EnsureLookup(p)
    \/ \E p \in Procs : EnsureInsert(p)
    \/ \E p \in Procs : SupersedeCheck(p)
    \/ \E p \in Procs : \E ok \in BOOLEAN : Commit(p, ok)
    \/ \E p \in Procs : \E ok \in BOOLEAN : Mirror(p, ok)
    \/ \E p \in Procs : Return(p)

RaceSpec == Init /\ [][RaceNext]_vars

\* The maintenance job run by the scheduler loop, next to the requests that
\* fill the store.
ConsolidateNext ==
    \/ Extract("p1")
    \/ AssignCategory("p1")
    \/ EnsureLookup("p1")
    \/ EnsureInsert("p1")
    \/ SupersedeCheck("p1")
    \/ Commit("p1", TRUE)
    \/ Mirror("p1", TRUE)
    \/ Return("p1")
    \/ LoopMaintenance
    \/ Refresh("timer")
    \/ RefreshFails("timer")
    \/ Split("timer")

ConsolidateSpec == Init /\ [][ConsolidateNext]_vars

\* The maintenance job started by the scheduler loop and by manual
\* triggers.
TriggerNext ==
    \/ Extract("p1")
    \/ AssignCategory("p1")
    \/ EnsureLookup("p1")
    \/ EnsureInsert("p1")
    \/ SupersedeCheck("p1")
    \/ Commit("p1", TRUE)
    \/ Mirror("p1", TRUE)
    \/ Return("p1")
    \/ LoopMaintenance
    \/ TriggerMaintenance
    \/ \E r \in Runners : Refresh(r)
    \/ \E r \in Runners : Split(r)

TriggerSpec == Init /\ [][TriggerNext]_vars

\* Extract with the completion service giving every candidate the highest
\* importance, and Refresh with summarize_category giving one text.
ExtractSalient(p) == Extract(p) /\ cand'[p].imp \in {0, ImportanceMax}

RefreshSteady(r) ==
    /\ Refresh(r)
    /\ \A c \in DOMAIN categories' :
          categories'[c].summary \in {"none", "s1"}

\* Split with suggest_subcategories putting every item of a category that
\* is too large into the subcategory "a".
SplitWhole(r) ==
    /\ Split(r)
    /\ _category_is_too_large(Min(ctodo[r]))
       => /\ \A i \in ItemsIn(Min(ctodo[r])) : items'[i].cat # Min(ctodo[r])
          /\ \A c \in DOMAIN categories' \ DOMAIN categories :
                categories'[c].path[Len(categories'[c].path)] = "a"

\* The maintenance job over a store whose categories get split, next to
\* the requests that fill it.
SplitNext ==
    \/ ExtractSalient("p1")
    \/ AssignCategory("p1")
    \/ EnsureLookup("p1")
    \/ EnsureInsert("p1")
    \/ SupersedeCheck("p1")
    \/ Commit("p1", TRUE)
    \/ Mirror("p1", TRUE)
    \/ Return("p1")
    \/ LoopMaintenance
    \/ RefreshSteady("timer")
    \/ Split("timer")

SplitSpec == Init /\ [][SplitNext]_vars

\* The maintenance job over a store whose items grow stale.
StaleNext ==
    \/ ExtractSalient("p1")
    \/ AssignCategory("p1")
    \/ EnsureLookup("p1")
    \/ EnsureInsert("p1")
    \/ SupersedeCheck("p1")
    \/ Commit("p1", TRUE)
    \/ Mirror("p1", TRUE)
    \/ Return("p1")
    \/ Tick
    \/ LoopMaintenance
    \/ RefreshSteady("timer")
    \/ SplitWhole("timer")

StaleSpec == Init /\ [][StaleNext]_vars

\* The chat store under the session tabs and the chat page.
ChatStoreNext ==
    \/ createSession
    \/ \E id \in SessionIds : deleteSession(id)
    \/ \E id \in SessionIds : setActiveSession(id)
    \/ \E name \in SessionNames : renameFirst(name)
    \/ \E message \in MessageIds : addMessageFirst(message)
    \/ \E mode \in Modes : setModeFirst(mode)
    \/ \E messageId \in {None} \cup MessageIds :
          setSelectedMessageFirst(messageId)
    \/ onRehydrateStorage

ChatStoreSpec == Init /\ [][ChatStoreNext]_vars

\* The chat page: typing, sending, and the replies coming back.
ChatPageNext ==
    \/ \E value \in ChatInputs : setInput(value)
    \/ \E value \in Modes : setChatMode(value)
    \/ handleSend
    \/ \E ok \in BOOLEAN, memories \in BOOLEAN :
          conversationSettles(ok, memories)

ChatPageSpec == Init /\ [][ChatPageNext]_vars

\* One client's memorize requests and retrieve requests as the days pass.
TouchNext ==
    \/ ExtractSalient("p1")
    \/ AssignCategory("p1")
    \/ EnsureLookup("p1")
    \/ EnsureInsert("p1")
    \/ SupersedeCheck("p1")
    \/ Commit("p1", TRUE)
    \/ Mirror("p1", TRUE)
    \/ Return("p1")
    \/ Tick
    \/ RetrieveSearchPlain
    \/ RetrieveFinish
    \/ RetrieveReturn

TouchSpec == Init /\ [][TouchNext]_vars

\* A memorize request that starts while no retrieve request is being
\* served.
ExtractAlone(p) == rpc = "idle" /\ Extract(p)

\* The first DaysPerTick days pass.
TickOnce == now = 0 /\ Tick

\* One client's memorize requests and scored retrieve requests, served one
\* after the other, before and after the first days pass, while the weights
\* are set.
ScoreNext ==
    \/ ExtractAlone("p1")
    \/ AssignCategory("p1")
    \/ EnsureLookup("p1")
    \/ EnsureInsert("p1")
    \/ SupersedeCheck("p1")
    \/ Commit("p1", TRUE)
    \/ Mirror("p1", TRUE)
    \/ Return("p1")
    \/ TickOnce
    \/ \E key \in AlphaKeys : \E value \in Alphas : SetAlpha(key, value)
    \/ RetrieveSearchFast
    \/ RetrieveFinish
    \/ RetrieveReturn

ScoreSpec == Init /\ [][ScoreNext]_vars

\* One client's memorize requests next to retrieve requests with and
\* without conversation context.
QueryNext ==
    \/ ExtractSalient("p1")
    \/ AssignCategory("p1")
    \/ EnsureLookup("p1")
    \/ EnsureInsert("p1")
    \/ SupersedeCheck("p1")
    \/ Commit("p1", TRUE)
    \/ Mirror("p1", TRUE)
    \/ Return("p1")
    \/ RetrieveSearch
    \/ RetrieveFinish
    \/ RetrieveReturn

QuerySpec == Init /\ [][QueryNext]_vars

\* The conversation buffer filled by conversation requests and flushed at
\* its limit and on request.
BufferNext ==
    \/ add_to_buffer
    \/ check_and_flush
    \/ flushBuffer
    \/ \E f \in Flushers : FlushReset(f)

BufferSpec == Init /\ [][BufferNext]_vars

\* The recency score of one item as the hours pass.
RecencyNext ==
    \/ HourPasses
    \/ Accessed
    \/ \E d \in DecayFactors : SetDecayFactor(d)

RecencySpec == Init /\ [][RecencyNext]_vars

\* The add-task form of the database page.
TaskFormNext ==
    \/ FetchTasks
    \/ \E open \in BOOLEAN : SetShowAddTask(open)
    \/ \E value \in TaskNames : SetNewTaskName(value)
    \/ \E value \in JobTypes : SetNewTaskType(value)
    \/ \E value \in Intervals : SetNewTaskInterval(value)
    \/ \E ok \in BOOLEAN : handleAddTask(ok)

TaskFormSpec == Init /\ [][TaskFormNext]_vars

\* ------------------------------------------------------------ properties
\* C1: once a memorize request that superseded an existing item has
\* committed, and until it has returned, the old item is still a row of the
\* Fact Store and is inactive, and the new item is a row of the Fact Store
\* and is active.
C1_SupersedeKeepsOld ==
    \A p \in Procs :
       (pc[p] \in {"mirror", "done"} /\ hit[p].verdict = "supersede")
       => /\ hit[p].item \in DOMAIN items
          /\ ~items[hit[p].item].active
          /\ cand[p].id \in DOMAIN items
          /\ items[cand[p].id].active

\* C3: no step of the system removes a Resource, a Category or a
\* MemoryItem: the three tables only grow.
C3_NoAutomatedDeletion ==
    [][/\ DOMAIN items \subseteq DOMAIN items'
       /\ DOMAIN categories \subseteq DOMAIN categories'
       /\ resources \subseteq resources']_vars

\* C4: a memorize request whose candidate is judged equivalent to an
\* existing item adds exactly one to that item's mention_count and creates
\* no item.
C4_ReinforcementCounts ==
    [][\A p \in Procs :
         (pc[p] = "check" /\ hit'[p].verdict = "equivalent")
         => /\ DOMAIN items' = DOMAIN items
            /\ items'[hit'[p].item].mention_count
                  = items[hit'[p].item].mention_count + 1
            /\ \A i \in DOMAIN items \ {hit'[p].item} : items'[i] = items[i]
            /\ result'[p] = {}]_vars

C4_Witness ==
    \E p \in Procs :
       /\ pc[p] = "done"
       /\ hit[p].verdict = "equivalent"
       /\ hit[p].item \in DOMAIN items
       /\ items[hit[p].item].mention_count = DefaultMentionCount + 1
       /\ cand[p].id \notin DOMAIN items

C6_SingleRun ==
    /\ Cardinality(InFlight) <= 1
    /\ reply.busy => reply.status = "already running"

\* C7: whatever the interleaving of two requests creating a category at
\* the same path with the same lineage, the path has one row, both requests
\* resolve to that row, and neither ends in a naming conflict.
C7_OneCategoryPerPath ==
    /\ \A c, d \in DOMAIN categories :
          categories[c].path = categories[d].path => c = d
    /\ \A p, q \in Procs :
          (/\ tpath[p] # <<>>
           /\ tpath[p] = tpath[q]
           /\ pc[p] \in Resolved
           /\ pc[q] \in Resolved)
          => /\ tcat[p] = tcat[q]
             /\ CategoriesAt(tpath[p]) = {tcat[p]}
    /\ \A p \in Procs : tpath[p] # <<>> => pc[p] # "conflict"

C7_Witness ==
    \E p \in refused : \E q \in Procs \ {p} :
       /\ tpath[p] # <<>>
       /\ tpath[p] = tpath[q]
       /\ pc[p] \in Resolved
       /\ pc[q] \in Resolved
       /\ tcat[p] = tcat[q]
       /\ CategoriesAt(tpath[p]) = {tcat[p]}

\* C8: a fast retrieve whose query matches both items of a superseded pair
\* (the first deactivated in favour of the second, the second active)
\* produces the second item and not the first.
C8_SecondNotFirst ==
    [][(rpc = "idle" /\ rpc' = "searched" /\ rmode' = "fast")
       => \A o, n \in rmatched' :
             (items[o].superseded_by = n /\ items[n].active)
             => n \in rhits' /\ o \notin rhits']_vars

C8_Witness ==
    /\ rpc = "searched"
    /\ rmode = "fast"
    /\ \E o, n \in rmatched :
          /\ o \in DOMAIN items
          /\ items[o].superseded_by = n
          /\ n \in rhits
          /\ o \notin rhits

\* C9: a consolidate run started right after a finished one, with no item
\* created or touched in between or during it, leaves every category
\* summary as the first run left it.
C9_SecondRunIdentical ==
    [][\A r \in Runners :
         (second[r] /\ quiet /\ cpc[r] # "idle" /\ cpc'[r] = "idle")
         => SummariesNow(categories') = prevSum]_vars

C12_MirrorFailureLogged ==
    [][\A p \in Procs :
         (pc[p] = "mirror" /\ pc'[p] # "mirror" /\ cand[p].id \notin mirror')
         => /\ pc'[p] = "done"
            /\ result'[p] = {cand[p].id}
            /\ cand[p].id \in DOMAIN items'
            /\ items' = items
            /\ warnings' = warnings \cup {cand[p].id}]_vars

C12_Witness ==
    \E p \in Procs :
       /\ pc[p] = "done"
       /\ cand[p].id \in warnings
       /\ cand[p].id \notin mirror
       /\ result[p] = {cand[p].id}
       /\ cand[p].id \in DOMAIN items

C15_IntervalAtLeastMinimum ==
    \A value \in posted : value >= MinInterval

\* C16: within a memorize request the stages come in the order extraction,
\* category assignment, supersede check, commit: a new item is written only
\* by a request in its commit stage, the commit stage is entered only from
\* the supersede check, the supersede check only from category assignment
\* with the category assigned, and category assignment only from an
\* extraction that gave a candidate.
C16_StagesInOrder ==
    [][/\ \A i \in DOMAIN items' \ DOMAIN items :
             \E p \in Procs : cand[p].id = i /\ pc[p] = "commit"
       /\ \A p \in Procs :
             /\ (pc'[p] = "commit" /\ pc[p] # "commit") => pc[p] = "check"
             /\ (pc'[p] = "check" /\ pc[p] # "check")
                => /\ pc[p] \in {"assign", "ensure", "insert"}
                   /\ tcat'[p] \in DOMAIN categories'
             /\ (pc'[p] \in {"ensure", "insert"} /\ pc'[p] # pc[p])
                => pc[p] \in {"assign", "ensure"}
             /\ (pc'[p] = "assign" /\ pc[p] # "assign")
                => pc[p] = "idle" /\ cand'[p] # NoCand]_vars

C16_Witness ==
    \E p \in Procs :
       /\ pc[p] = "mirror"
       /\ hit[p].verdict = "supersede"
       /\ cand[p].id \in DOMAIN items
       /\ items[cand[p].id].cat = tcat[p]

\* C13: a failure on one category does not end a consolidate run: a run
\* that has further categories left in the loop it is in is still in flight
\* after every step.
C13_RunGoesOn ==
    [][\A r \in Runners :
          (cpc[r] # "idle" /\ Cardinality(ctodo[r]) > 1)
          => cpc'[r] # "idle"]_vars

\* C18: the stale scan changes no MemoryItem: the step that starts a
\* consolidate run, which holds the scan, leaves the memory_items table as
\* it was, however many items are stale.
C18_StaleScanChangesNothing ==
    [][\A r \in Runners :
          (cpc[r] = "idle" /\ cpc'[r] # "idle") => items' = items]_vars

C18_Witness ==
    /\ cpc["timer"] = "refresh"
    /\ ctodo["timer"] = csnap["timer"]
    /\ Cardinality(get_stale_items(StaleDays)) > MaxStaleItems
    /\ \A i \in get_stale_items(StaleDays) : items[i].active

\* C14: a request whose path exists with another lineage ends in the
\* conflict error, which is not the store-failure error; the step that
\* reports it creates no category and assigns none; the request is not
\* retried but answered; and no path is ever held by two categories.
C14_ConflictReported ==
    /\ [](\A c, d \in DOMAIN categories :
             categories[c].path = categories[d].path => c = d)
    /\ [][\A p \in Procs :
            /\ (/\ pc[p] = "ensure"
                /\ pc'[p] # "ensure"
                /\ \E c \in CategoriesAt(tpath[p]) : categories[c].parent # None)
               => /\ pc'[p] = "conflict"
                  /\ tcat'[p] = None
                  /\ categories' = categories
                  /\ items' = items
            /\ (pc[p] = "conflict" /\ pc'[p] # "conflict")
               => /\ pc'[p] = "idle"
                  /\ categories' = categories
                  /\ items' = items]_vars

C14_Witness ==
    /\ pc["p1"] = "conflict"
    /\ \E c \in CategoriesAt(tpath["p1"]) : categories[c].parent # None
    /\ cand["p1"].id \notin DOMAIN items

\* C19: a split that created a child category without raising changes only
\* category references: the split category still exists, no item or
\* resource is created or removed, every item keeps everything but its
\* category, and every item that was in the split category is afterwards
\* in one of the new child categories.
C19_SplitMovesEveryItem ==
    [][\A r \in Runners :
          LET c == Min(ctodo[r]) IN
          (/\ cpc[r] = "split"
           /\ ctodo'[r] # ctodo[r]
           /\ _category_is_too_large(c)
           /\ DOMAIN categories' # DOMAIN categories
           /\ ~(cpc'[r] = "idle" /\ ~quiet'))
          => /\ c \in DOMAIN categories'
             /\ DOMAIN items' = DOMAIN items
             /\ resources' = resources
             /\ \A i \in DOMAIN items :
                   items'[i] = [items[i] EXCEPT !.cat = items'[i].cat]
             /\ \A i \in ItemsIn(c) :
                   /\ items'[i].cat \in DOMAIN categories' \ DOMAIN categories
                   /\ categories'[items'[i].cat].parent = c]_vars

C29_SessionCount ==
    /\ [](Len(sessions) >= 1 /\ Len(sessions) <= MAX_SESSIONS)
    /\ [][/\ (Len(sessions) = MAX_SESSIONS /\ createSession)
             => UNCHANGED <<sessions, activeSessionId>>
          /\ (Len(sessions) = 1 /\ \E id \in SessionIds : deleteSession(id))
             => Len(sessions') = 1]_vars

C29_Witness ==
    /\ Len(sessions) = MAX_SESSIONS
    /\ sessions[1].id = 1
    /\ Len(sessions[1].messages) > 1

\* C30: activeSessionId is None or the id of a session of the store; once
\* it is an id no step makes it None again; and while it is None,
\* addMessage, setMode and setSelectedMessage leave every session as it is.
C30_ActiveSessionExists ==
    /\ [](\/ activeSessionId = None
          \/ \E k \in DOMAIN sessions : sessions[k].id = activeSessionId)
    /\ [][/\ activeSessionId # None => activeSessionId' # None
          /\ (/\ activeSessionId = None
              /\ \/ \E message \in MessageIds : addMessage(message)
                 \/ \E mode \in Modes : setMode(mode)
                 \/ \E messageId \in {None, 1} \cup MessageIds :
                       setSelectedMessage(messageId))
             => sessions' = sessions]_vars

C30_Witness ==
    /\ Len(sessions) > 1
    /\ activeSessionId = sessions[2].id
    /\ sessions[1].mode = "deep"

\* C28: at most one conversation request is in flight; a send attempted
\* while isLoading is true sends nothing and appends nothing; after the
\* greeting the messages are user, assistant, user, assistant, ..., the
\* last one a user message exactly while its request is awaited, and
\* isLoading is false once the request has settled.
C28_OneRequestAtATime ==
    /\ [](/\ inFlight <= 1
          /\ isLoading <=> inFlight = 1
          /\ isLoading <=> messages[Len(messages)].role = "user"
          /\ \A k \in 2..Len(messages) :
                messages[k].role =
                   IF k % 2 = 0 THEN "user" ELSE "assistant")
    /\ [][/\ (isLoading /\ handleSend) => UNCHANGED <<messages, inFlight>>
          /\ inFlight' < inFlight
             => /\ ~isLoading'
                /\ Len(messages') = Len(messages) + 1
                /\ messages'[Len(messages')].role = "assistant"]_vars

C28_Witness ==
    /\ Len(messages) = 5
    /\ messages[3].kind = "error"
    /\ messages[5].kind = "reply"
    /\ ~isLoading
    /\ inFlight = 0

\* C26: when a flush_buffer started at the flush boundary completes, the
\* buffer is empty and every message that was in the buffer has been passed
\* to the memorize pipeline exactly once.
C26_FlushedExactlyOnce ==
    [][(fpc["auto"] = "sent" /\ fpc'["auto"] = "idle")
       => /\ conversation_buffer' = <<>>
          /\ \A k \in DOMAIN conversation_buffer :
                memorized'[conversation_buffer[k]] = 1]_vars

\* C27: in every reachable state, every item deactivated by supersede
\* carries a superseded-by link to an item that is a row of the Fact Store
\* (rows enter the store active).
C27_LinkToCommittedItem ==
    \A o \in DOMAIN items :
       (~items[o].active /\ items[o].superseded_by # None)
       => items[o].superseded_by \in DOMAIN items

\* The step on which request p gets its category or its naming conflict.
Settles(p) ==
    /\ pc[p] \in {"assign", "ensure", "insert"}
    /\ pc'[p] \in {"check", "conflict"}

\* The best similarity of request p reached the threshold.
NearEnough(p) == near'[p].sim >= CategoryThreshold

C24_BelowThresholdNeverReturned ==
    /\ rpc \in {"searched", "done"}
       => \A i \in DOMAIN rrel :
             rrel[i] < scoring.min_relevance_threshold => i \notin rhits
    /\ rpc = "done"
       => \A j \in DOMAIN rresult.items :
             /\ rresult.items[j] \in rhits
             /\ rrel[rresult.items[j]] >= scoring.min_relevance_threshold

C24_Witness ==
    /\ rpc = "done"
    /\ scoring.min_relevance_threshold = MinRelevance
    /\ \E i \in DOMAIN rrel, j \in DOMAIN rresult.items :
          /\ rrel[i] < MinRelevance
          /\ items[i].active
          /\ items[i].importance = ImportanceMax
          /\ items[rresult.items[j]].importance < ImportanceMax
          /\ \A k \in DOMAIN rresult.items : rresult.items[k] # i

\* C25: a retrieve given conversation context searches with the rewritten
\* query and its RetrievalResult carries the rewritten query and, in
\* another of its text fields, the original one; a retrieve given no
\* context makes no rewrite call and its result's evolved query is empty.
C25_ResultCarriesBothQueries ==
    rpc = "done"
    => IF rcontext # <<>>
       THEN /\ rrewrote
            /\ rsearched = rresult.query_evolved
            /\ rresult.query_evolved # NoQuery
            /\ \E f \in DOMAIN rresult \cap
                        {"query", "suggested_context", "retrieval_mode"} :
                  rresult[f] = rquery
       ELSE /\ ~rrewrote
            /\ rsearched = rquery
            /\ rresult.query_evolved = NoQuery

====
